---- MODULE Spec2Model ----
(***************************************************************************)
(* A model of risd/webhook-react-tag (src/index.js): the swig `react` tag. *)
(*                                                                         *)
(* Text is modelled as a sequence of one-character strings, so that the    *)
(* escaping, quote stripping and concatenation of the source are computed  *)
(* character by character.  A JavaScript value that may be undefined is a  *)
(* record [t |-> "undefined" | "string", v |-> <characters>].              *)
(***************************************************************************)
EXTENDS Integers, Sequences, FiniteSets, TLC

VARIABLES
  components,     \* src/index.js:51   the registry object
  argumentIndex,  \* src/index.js:214  the (implicit global) loop variable, -1 before any loop
  extStatus,      \* outcome of the last components(...) call: "none" | "returned" | "threw"
  extArgs,        \* arguments of the last components(...) call
  extBefore,      \* the registry as it was when the last components(...) call began
  history,        \* every argument list handed to components(...) so far, flattened
  everThrew,      \* whether some components(...) call has thrown
  lastOp,         \* the last operation on the registry: "none" | "components" |
                  \* "render" (the extension alone) | "evaluate" (the emitted code)
  rName,          \* renderReactComponentToString: componentName of the last call
  rComponent,     \* renderReactComponentToString: the Component it resolved ("none" if missing)
  rReturn,        \* renderReactComponentToString: its return value
  consoleErr,     \* the name the last render reported through console.error, if any
  parsing,        \* parse: whether the handlers of a tag invocation are registered
  pComponentName, \* src/index.js:140 parse: the closure variable componentName
  out,            \* parse: what the handlers pushed to parser.out (this.out), in order
  pReturn,        \* parse: what the last handler returned: "none" | "undefined" | "true" | "false"
  pTokens,        \* parse: the tokens the handlers were called with, in order
  cStatus,        \* compile: "idle" | "looping" | "returned" | "threw"
  cInput,         \* compile: the argument list it was called with
  args,           \* src/index.js:65  compile: the argument queue
  componentName,  \* src/index.js:67
  props,          \* src/index.js:68
  container,      \* src/index.js:69
  arg,            \* src/index.js:71  the argument the loop dequeued last
  cErr,           \* src/index.js:103 the message of the error compile threw
  js,             \* src/index.js:70  the code compile returned: its three holes
  output,         \* what the last evaluation of the emitted code appended to _output
  eProps,         \* the value the props argument of the emitted function had
  eContainer,     \* the value the container argument of the emitted function had
  cSeen,          \* the keys the registry had when compile was entered
  swigExtensions, \* useTag: the names the engine holds the render extension under
  swigTags,       \* useTag: the names the engine holds the tag under
  uCustomName     \* useTag: the customName argument of the last call

regVars == <<components, argumentIndex, extStatus, extArgs, extBefore, history,
             everThrew, lastOp, rName, rComponent, rReturn, consoleErr>>

parseVars == <<parsing, pComponentName, out, pReturn, pTokens>>

compileVars == <<cStatus, cInput, args, componentName, props, container, arg, cErr, js, cSeen>>

evalVars == <<output, eProps, eContainer>>

engineVars == <<swigExtensions, swigTags, uCustomName>>

vars == <<regVars, parseVars, compileVars, evalVars, engineVars>>

----------------------------------------------------------------------------
(* Bounds *)

\* total number of arguments handed to components(...) in one run
MaxHistory == 3
\* number of tokens the tokenizer emits for one tag invocation
MaxTokens == 3
\* length of the argument list handed to compile
MaxArgs == 6
\* number of pieces a props string value is made of
MaxChunks == 2

----------------------------------------------------------------------------
(* JavaScript values *)

Undefined == [t |-> "undefined", v |-> <<>>]
Str(s) == [t |-> "string", v |-> s]

\* "" + x : string conversion of a string-or-undefined value
JsString(x) == IF x.t = "undefined" THEN <<"u","n","d","e","f","i","n","e","d">> ELSE x.v

\* truthiness of a string-or-undefined value
Truthy(x) == x.t = "string" /\ x.v # <<>>

\* queue.shift(): the first element, undefined when the queue is empty
Shift(queue) == IF queue = <<>> THEN Undefined ELSE Str(Head(queue))
\* the queue after queue.shift()
Shifted(queue) == IF queue = <<>> THEN <<>> ELSE Tail(queue)

\* an undefined props or container value
UndefinedValue == [kind |-> "undefined", tag |-> <<>>, entries |-> <<>>, text |-> <<>>]

\* a string props or container value
StringValue(s) == [kind |-> "string", tag |-> <<>>, entries |-> <<>>, text |-> s]

\* truthiness of a props or container value: x || default
ValueTruthy(x) == x.kind = "object" \/ (x.kind = "string" /\ x.text # <<>>)

\* no code returned (yet)
NoCode == [componentName |-> <<>>, props |-> <<>>, container |-> <<>>, emitted |-> FALSE]

----------------------------------------------------------------------------
(* Component registry: extendComponents *)

\* component names (registry keys) and component references of the universe
Names == {<<"H">>, <<"F">>}
Comps == {"X", "Y"}

EmptyObject == [k \in {} |-> "X"]

\* every name -> component object over the universe
Groups == UNION {[D -> Comps] : D \in SUBSET Names}

ObjectValue(g) == [kind |-> "object", obj |-> g]
NonObject(k) == [kind |-> k, obj |-> EmptyObject]

NonObjectKinds == {"undefined", "null", "number", "string", "boolean", "function"}

\* the values a caller may hand to components(...)
ArgValues == {ObjectValue(g) : g \in Groups} \cup {NonObject(k) : k \in NonObjectKinds}

\* typeof x
TypeOf(x) == IF x.kind = "null" THEN "object" ELSE x.kind

\* a merge that keeps the value a key already has (first write wins)
ObjectAssignKeepFirst(target, source) ==
  IF source.kind # "object" THEN target
  ELSE [k \in DOMAIN target \cup DOMAIN source.obj |->
          IF k \in DOMAIN target THEN target[k] ELSE source.obj[k]]

\* a merge that replaces the target by the source
ObjectAssignReplace(target, source) ==
  IF source.kind # "object" THEN target ELSE source.obj

\* Object.assign(target, source): null and undefined sources are skipped,
\* own keys of the source overwrite those of the target
ObjectAssign(target, source) ==
  IF source.kind # "object" THEN target
  ELSE [k \in DOMAIN target \cup DOMAIN source.obj |->
          IF k \in DOMAIN source.obj THEN source.obj[k] ELSE target[k]]

\* a loop that undoes the merges made so far when it meets a bad argument
RECURSIVE extendLoopRollback(_, _, _, _)
extendLoopRollback(reg, arguments, i, idx) ==
  IF i > Len(arguments) THEN [components |-> reg, threw |-> FALSE, argumentIndex |-> idx]
  ELSE IF TypeOf(arguments[i]) # "object"
       THEN [components |-> components, threw |-> TRUE, argumentIndex |-> i - 1]
       ELSE extendLoopRollback(ObjectAssign(reg, arguments[i]), arguments, i + 1, i - 1)

\* the for-in loop of extendComponents from argument i on (1-based position;
\* argumentIndex holds the 0-based key): the registry, whether it threw, and
\* the loop variable it leaves behind
RECURSIVE extendLoop(_, _, _, _)
extendLoop(reg, arguments, i, idx) ==
  IF i > Len(arguments) THEN [components |-> reg, threw |-> FALSE, argumentIndex |-> idx]
  ELSE IF TypeOf(arguments[i]) # "object"
       THEN [components |-> reg, threw |-> TRUE, argumentIndex |-> i - 1]
       ELSE extendLoop(ObjectAssign(reg, arguments[i]), arguments, i + 1, i - 1)

\* components(...arguments)
extendComponents(arguments) ==
  LET r == extendLoop(components, arguments, 1, argumentIndex) IN
  /\ Len(history) + Len(arguments) <= MaxHistory
  /\ components' = r.components
  /\ argumentIndex' = r.argumentIndex
  /\ extStatus' = IF r.threw THEN "threw" ELSE "returned"
  /\ extArgs' = arguments
  /\ extBefore' = components
  /\ history' = history \o arguments
  /\ everThrew' = (everThrew \/ r.threw)
  /\ lastOp' = "components"
  /\ rName' = <<>>
  /\ rComponent' = "none"
  /\ rReturn' = Undefined
  /\ consoleErr' = Undefined
  /\ UNCHANGED <<parseVars, compileVars, evalVars, engineVars>>

----------------------------------------------------------------------------
(* Render bridge: renderReactComponentToString *)

\* ReactDOMServer.renderToString(React.createElement(Component, props)):
\* the external renderer, some non-empty markup that identifies the component
renderToString(Component) == <<"<", "i", ">", Component, "<", "/", "i", ">">>

\* a lookup that finds no component, as in the registry of module load
ExtensionReturnAtLoad(reg, cn) == Undefined

\* the return value of renderReactComponentToString(cn, props)
ExtensionReturn(reg, cn) ==
  IF cn \in DOMAIN reg
  THEN Str(renderToString(reg[cn]))
  ELSE Undefined

renderReactComponentToString(cn) ==
  /\ rName' = cn
  /\ rComponent' = IF cn \in DOMAIN components
                   THEN components[cn] ELSE "none"
  /\ rReturn' = ExtensionReturn(components, cn)
  /\ consoleErr' = IF cn \in DOMAIN components
                   THEN Undefined ELSE Str(cn)
  /\ extStatus' = "none"
  /\ extArgs' = <<>>
  /\ extBefore' = EmptyObject
  /\ UNCHANGED <<components, argumentIndex, history, everThrew>>

\* the extension called on its own (module.exports.extension)
extension(cn) ==
  /\ renderReactComponentToString(cn)
  /\ lastOp' = "render"
  /\ UNCHANGED <<parseVars, compileVars, evalVars, engineVars>>

----------------------------------------------------------------------------
(* Specification of the registry *)

ArgLists(n) == UNION {[1..m -> ArgValues] : m \in 0..n}

\* the state once the module is loaded: an empty registry, no tag parsed yet
Init ==
  /\ components = EmptyObject
  /\ argumentIndex = -1
  /\ extStatus = "none"
  /\ extArgs = <<>>
  /\ extBefore = EmptyObject
  /\ history = <<>>
  /\ everThrew = FALSE
  /\ lastOp = "none"
  /\ rName = <<>>
  /\ rComponent = "none"
  /\ rReturn = Undefined
  /\ consoleErr = Undefined
  /\ parsing = FALSE
  /\ pComponentName = Undefined
  /\ out = <<>>
  /\ pReturn = "none"
  /\ pTokens = <<>>
  /\ cStatus = "idle"
  /\ cInput = <<>>
  /\ args = <<>>
  /\ componentName = Undefined
  /\ props = Undefined
  /\ container = Undefined
  /\ arg = Undefined
  /\ cErr = <<>>
  /\ js = NoCode
  /\ output = Undefined
  /\ eProps = UndefinedValue
  /\ eContainer = UndefinedValue
  /\ cSeen = {}
  /\ swigExtensions = {}
  /\ swigTags = {}
  /\ uCustomName = Undefined

NextRegistry ==
  \/ \E arguments \in ArgLists(MaxHistory - Len(history)) : extendComponents(arguments)
  \/ \E n \in Names : extension(n)

SpecRegistry == Init /\ [][NextRegistry]_vars

----------------------------------------------------------------------------
(* Tag parser: parse and the two token handlers it registers *)

STR_WITH == <<"w", "i", "t", "h">>
STR_IN == <<"i", "n">>

Quotes == {"'", "\""}

\* a removal of the leading quote only
StripLeadingQuote(s) == IF s # <<>> /\ Head(s) \in Quotes THEN Tail(s) ELSE s

\* token.match.replace(/(^['"]|['"]$)/g, ""): one quote character off the
\* start and one off the end, each only if present
StripQuotes(s) ==
  LET a == IF s # <<>> /\ Head(s) \in Quotes THEN Tail(s) ELSE s IN
  IF a # <<>> /\ a[Len(a)] \in Quotes THEN SubSeq(a, 1, Len(a) - 1) ELSE a

Token(type, match) == [type |-> type, match |-> match]

\* string-literal tokens (the match holds the quote characters) and
\* identifier tokens the tokenizer may emit
StringTokens ==
  {Token("STRING", m) : m \in {<<"'", "H", "'">>, <<"\"", "F", "\"">>, <<"'", "'">>,
                               <<"\"", "\"">>, <<"'", "w", "i", "t", "h", "'">>}}
VarTokens ==
  {Token("VAR", m) : m \in {<<"H">>, STR_WITH, STR_IN, <<"p">>}}

\* parse(str, line, parser, types, stack, opts): a fresh closure and output
parse ==
  /\ parsing' = TRUE
  /\ pComponentName' = Undefined
  /\ out' = <<>>
  /\ pReturn' = "true"
  /\ pTokens' = <<>>
  /\ UNCHANGED <<regVars, compileVars, evalVars, engineVars>>

\* parser.on(types.STRING, function(token) {...})
onString(token) ==
  /\ parsing /\ Len(pTokens) < MaxTokens
  /\ pTokens' = Append(pTokens, token)
  /\ IF ~Truthy(pComponentName)
     THEN /\ pComponentName' = Str(StripQuotes(token.match))
          /\ out' = Append(out, StripQuotes(token.match))
          /\ pReturn' = "undefined"
     ELSE /\ pReturn' = "true"
          /\ UNCHANGED <<pComponentName, out>>
  /\ UNCHANGED <<parsing, regVars, compileVars, evalVars, engineVars>>

\* parser.on(types.VAR, function(token) {...})
onVar(token) ==
  /\ parsing /\ Len(pTokens) < MaxTokens
  /\ pTokens' = Append(pTokens, token)
  /\ IF ~Truthy(pComponentName)
     THEN /\ pComponentName' = Str(token.match)
          /\ pReturn' = "true"
          /\ UNCHANGED out
     ELSE IF token.match = STR_WITH \/ token.match = STR_IN
          THEN /\ out' = Append(out, token.match)
               /\ pReturn' = "false"
               /\ UNCHANGED pComponentName
          ELSE /\ pReturn' = "true"
               /\ UNCHANGED <<pComponentName, out>>
  /\ UNCHANGED <<parsing, regVars, compileVars, evalVars, engineVars>>

NextParse ==
  \/ parse
  \/ \E t \in StringTokens : onString(t)
  \/ \E t \in VarTokens : onVar(t)

SpecParse == Init /\ [][NextParse]_vars

----------------------------------------------------------------------------
(* Tag compiler: compile *)

STR_OBJ_OPEN == <<"{">>
STR_OBJ_CLOSE == <<"}">>

\* a scan that stops at the first closing brace, balanced or not
RECURSIVE scanObjectFirstClose(_, _, _, _)
scanObjectFirstClose(queue, objOpenings, objClosings, objParts) ==
  IF ~Truthy(Shift(queue))
  THEN [found |-> FALSE, props |-> objParts, args |-> Shifted(queue)]
  ELSE LET objPart == Head(queue) IN
       IF objPart = STR_OBJ_CLOSE
       THEN [found |-> TRUE, props |-> objParts \o objPart, args |-> Tail(queue)]
       ELSE scanObjectFirstClose(Tail(queue), objOpenings, objClosings, objParts \o objPart)

\* the inner while loop (src/index.js:82-95): dequeue parts, count the braces,
\* concatenate, and stop at a closing brace that balances; found is whether
\* the loop left through the break
RECURSIVE scanObject(_, _, _, _)
scanObject(queue, objOpenings, objClosings, objParts) ==
  IF ~Truthy(Shift(queue))
  THEN [found |-> FALSE, props |-> objParts, args |-> Shifted(queue)]
  ELSE LET objPart == Head(queue)
           o == IF objPart = STR_OBJ_OPEN THEN objOpenings + 1 ELSE objOpenings
           c == IF objPart = STR_OBJ_CLOSE THEN objClosings + 1 ELSE objClosings
       IN IF objPart = STR_OBJ_CLOSE /\ o = c
          THEN [found |-> TRUE, props |-> objParts \o objPart, args |-> Tail(queue)]
          ELSE scanObject(Tail(queue), o, c, objParts \o objPart)

\* 'Unexpected argument "' + arg + '" in react tag.'
UnexpectedArgument(a) ==
  <<"U","n","e","x","p","e","c","t","e","d"," ","a","r","g","u","m","e","n","t"," ","\"">>
    \o a \o <<"\""," ","i","n"," ","r","e","a","c","t"," ","t","a","g",".">>

\* the default case of the switch (src/index.js:102-104)
unexpected ==
  /\ cStatus' = "threw"
  /\ cErr' = UnexpectedArgument(Head(args))
  /\ args' = Tail(args)
  /\ UNCHANGED <<props, container>>

\* compile is entered: src/index.js:66-71.  Every variable of compile is a
\* local that the call sets afresh, so a behaviour follows one call.
compileStart(input) ==
  /\ cStatus = "idle"
  /\ cInput' = input
  /\ componentName' = Shift(input)
  /\ args' = Shifted(input)
  /\ props' = Undefined
  /\ container' = Undefined
  /\ arg' = Undefined
  /\ cErr' = <<>>
  /\ js' = NoCode
  /\ cStatus' = "looping"
  /\ cSeen' = DOMAIN components
  /\ UNCHANGED <<regVars, parseVars, evalVars, engineVars>>

\* one pass of the outer while loop whose condition holds: src/index.js:74-106
compileArg ==
  /\ cStatus = "looping"
  /\ Truthy(Shift(args))
  /\ arg' = Shift(args)
  /\ IF Head(args) = STR_WITH
     THEN LET first == Shift(Tail(args))
              rest == Shifted(Tail(args))
              scan == scanObject(rest, 1, 0, STR_OBJ_OPEN)
          IN /\ IF first = Str(STR_OBJ_OPEN)
                THEN /\ props' = IF scan.found THEN Str(scan.props) ELSE first
                     /\ args' = scan.args
                ELSE /\ props' = first
                     /\ args' = rest
             /\ UNCHANGED <<cStatus, cErr, container>>
     ELSE IF Head(args) = STR_IN
     THEN /\ container' = Shift(Tail(args))
          /\ args' = Shifted(Tail(args))
          /\ UNCHANGED <<cStatus, cErr, props>>
     ELSE unexpected
  /\ UNCHANGED <<cInput, componentName, js, cSeen>>
  /\ UNCHANGED <<regVars, parseVars, evalVars, engineVars>>

\* the outer loop ends (the queue is empty or its head is the empty string)
\* and the code is emitted and returned: src/index.js:74, 108-133
compileEmit ==
  /\ cStatus = "looping"
  /\ ~Truthy(Shift(args))
  /\ arg' = Shift(args)
  /\ args' = Shifted(args)
  /\ js' = [componentName |-> JsString(componentName), props |-> JsString(props),
            container |-> JsString(container), emitted |-> TRUE]
  /\ cStatus' = "returned"
  /\ UNCHANGED <<cInput, componentName, props, container, cErr, cSeen>>
  /\ UNCHANGED <<regVars, parseVars, evalVars, engineVars>>

\* {% react H with { a : 1 , b : { c : 2 } } %}
NestedObjectArgs ==
  <<<<"H">>, STR_WITH, STR_OBJ_OPEN, <<"a">>, <<":">>, <<"1">>, <<",">>, <<"b">>, <<":">>,
    STR_OBJ_OPEN, <<"c">>, <<":">>, <<"2">>, STR_OBJ_CLOSE, STR_OBJ_CLOSE>>

\* the tokens of a tag's argument list: the keywords, the braces, a host
\* expression, and the empty string (a captured empty component name)
CompileTokens == {STR_WITH, STR_IN, STR_OBJ_OPEN, STR_OBJ_CLOSE, <<"a">>}

\* the parse handlers push the empty string only while no non-empty name is
\* captured (src/index.js:143-146), so it occurs only at the start of a list
LeadingEmpty(s) == \A i \in 1..Len(s) : s[i] = <<>> => \A j \in 1..i : s[j] = <<>>

CompileArgLists(n) ==
  {s \in UNION {[1..m -> CompileTokens \cup {<<>>}] : m \in 0..n} : LeadingEmpty(s)}

CompileInputs == CompileArgLists(MaxArgs) \cup {NestedObjectArgs}

NextCompile ==
  \/ cStatus = "idle" /\ \E input \in CompileInputs : compileStart(input)
  \/ compileArg
  \/ compileEmit

SpecCompile == Init /\ [][NextCompile]_vars

----------------------------------------------------------------------------
(* The emitted code: src/index.js:109-130, evaluated at render time *)

QUOT == <<"&", "q", "u", "o", "t", ";">>
\* a default container tag other than div
DefaultTagP == <<"p">>
\* the tag of the default container: { tag: 'div' }
DIV == <<"d", "i", "v">>
SPAN == <<"s", "p", "a", "n">>

\* ' data-react-component="'  and  ' data-react-props="'
DataReactComponent ==
  <<" ","d","a","t","a","-","r","e","a","c","t","-","c","o","m","p","o","n","e","n","t","=","\"">>
DataReactProps ==
  <<" ","d","a","t","a","-","r","e","a","c","t","-","p","r","o","p","s","=","\"">>

\* an object value: props (entries are its own keys, in insertion order, with
\* string values) or a container (its tag, and entries for its other keys)
Object(tag, entries) == [kind |-> "object", tag |-> tag, entries |-> entries, text |-> <<>>]
Entry(k, v) == [k |-> k, v |-> v]

Digits == <<"0", "1", "2", "3", "4", "5", "6", "7", "8", "9">>

\* the own enumerable properties of a string, from its i-th character on:
\* the index keys "0", "1", ... with the characters as values
RECURSIVE StringEntries(_, _)
StringEntries(s, i) ==
  IF i > Len(s) THEN <<>>
  ELSE <<Entry(<<Digits[i]>>, <<s[i]>>)>> \o StringEntries(s, i + 1)

\* container.tag: a string has no property tag
ContainerTag(c) == IF c.kind = "string" THEN JsString(Undefined) ELSE c.tag

\* the keys the for-in loop visits that are own and not tag, with their values
OwnEntries(c) == IF c.kind = "string" THEN StringEntries(c.text, 1) ELSE c.entries

\* the text of a JSON string literal, without the surrounding quotes:
\* JSON.stringify escapes the double quote and the backslash
RECURSIVE JsonEscape(_)
JsonEscape(s) ==
  IF s = <<>> THEN <<>>
  ELSE (IF Head(s) \in {"\"", "\\"} THEN <<"\\", Head(s)>> ELSE <<Head(s)>>)
         \o JsonEscape(Tail(s))

JsonString(s) == <<"\"">> \o JsonEscape(s) \o <<"\"">>

RECURSIVE JsonMembers(_)
JsonMembers(entries) ==
  IF entries = <<>> THEN <<>>
  ELSE JsonString(entries[1].k) \o <<":">> \o JsonString(entries[1].v)
         \o (IF Len(entries) > 1 THEN <<",">> ELSE <<>>) \o JsonMembers(Tail(entries))

\* JSON.stringify(props)
JsonStringify(p) ==
  IF p.kind = "string" THEN JsonString(p.text)
  ELSE <<"{">> \o JsonMembers(p.entries) \o <<"}">>

\* s.replace(/"/g, "&quot;")
RECURSIVE ReplaceAllQuotes(_)
ReplaceAllQuotes(s) ==
  IF s = <<>> THEN <<>>
  ELSE (IF Head(s) = "\"" THEN QUOT ELSE <<Head(s)>>) \o ReplaceAllQuotes(Tail(s))

\* s.replace('"', '&quot;'): the first double quote only
RECURSIVE ReplaceFirstQuote(_)
ReplaceFirstQuote(s) ==
  IF s = <<>> THEN <<>>
  ELSE IF Head(s) = "\"" THEN QUOT \o Tail(s)
  ELSE <<Head(s)>> \o ReplaceFirstQuote(Tail(s))

\* the for-in loop over the container's keys other than tag: src/index.js:114-120
RECURSIVE ContainerAttributes(_)
ContainerAttributes(entries) ==
  IF entries = <<>> THEN <<>>
  ELSE <<" ">> \o entries[1].k \o <<"=", "\"">> \o ReplaceFirstQuote(entries[1].v) \o <<"\"">>
         \o ContainerAttributes(Tail(entries))

\* what the extension call contributes to __o: '' + _ext.react(name, props)
InnerMarkup(reg, cn) == JsString(ExtensionReturn(reg, cn))

\* the fragment the emitted function returns for the argument values pv, cv
Fragment(code, reg, pv, cv) ==
  LET p == IF ValueTruthy(pv) THEN pv ELSE Object(<<>>, <<>>)
      c == IF ValueTruthy(cv) THEN cv ELSE Object(DIV, <<>>)
      o == <<"<">> \o ContainerTag(c)
      pp == ReplaceAllQuotes(JsonStringify(p))
  IN o \o ContainerAttributes(OwnEntries(c))
       \o DataReactComponent \o code.componentName \o <<"\"">>
       \o DataReactProps \o pp \o <<"\"", ">">>
       \o InnerMarkup(reg, code.componentName)
       \o <<"<", "/">> \o ContainerTag(c) \o <<">">>

\* the pieces string values of props are made of, and the values
PropChunks == {<<"a">>, <<"\"">>, <<"\\">>, QUOT}

RECURSIVE ChunkStrings(_)
ChunkStrings(n) ==
  IF n = 0 THEN {<<>>}
  ELSE ChunkStrings(n - 1) \cup {s \o c : s \in ChunkStrings(n - 1), c \in PropChunks}

PropsValues ==
  {Object(<<>>, <<>>)}
    \cup {Object(<<>>, <<Entry(<<"a">>, v)>>) : v \in ChunkStrings(MaxChunks)}
    \cup {Object(<<>>, <<Entry(<<"a">>, v), Entry(<<"b">>, <<"a">>)>>) : v \in ChunkStrings(1)}

\* the key data-react-props
ReservedKey == SubSeq(DataReactProps, 2, Len(DataReactProps) - 2)

\* containers: a tag name, the empty string, objects with a tag key and
\* further attribute keys (values with double quotes, the reserved key)
ContainerValues ==
  {StringValue(SPAN), StringValue(<<>>),
   Object(SPAN, <<>>),
   Object(DIV, <<Entry(<<"i", "d">>, <<"m">>)>>),
   Object(DIV, <<Entry(<<"i", "d">>, <<"m">>), Entry(<<"t">>, <<"\"", "a", "\"">>)>>),
   Object(DIV, <<Entry(<<"t">>, <<"a", "\"">>)>>),
   Object(DIV, <<Entry(ReservedKey, <<"x">>)>>)}

\* a render pass binds p and c to any props with a plain container, or to
\* plain props with any container
PlainProps == {UndefinedValue, Object(<<>>, <<>>), Object(<<>>, <<Entry(<<"a">>, <<"a">>)>>)}
PlainContainers == {UndefinedValue, Object(DIV, <<Entry(<<"i", "d">>, <<"m">>)>>)}

\* the values the expression source src of the emitted call may have: the
\* text undefined is undefined, the variable bound is any of the values
SourceValues(src, variable, values) ==
  IF src = JsString(Undefined) THEN {UndefinedValue}
  ELSE IF src = variable THEN values ELSE {}

\* one evaluation of the emitted code in a render pass
evaluate(pv, cv) ==
  /\ cStatus = "returned"
  /\ pv \in SourceValues(js.props, <<"p">>, PropsValues)
  /\ cv \in SourceValues(js.container, <<"c">>, ContainerValues)
  /\ output' = Str(Fragment(js, components, pv, cv))
  /\ eProps' = pv
  /\ eContainer' = cv
  /\ renderReactComponentToString(js.componentName)
  /\ lastOp' = "evaluate"
  /\ UNCHANGED <<compileVars, parseVars, engineVars>>

\* {% react n %}, {% react n with p %}, {% react n in c %}, {% react n with p in c %}
RenderTags ==
  UNION {{<<n>>, <<n, STR_WITH, <<"p">>>>, <<n, STR_IN, <<"c">>>>,
          <<n, STR_WITH, <<"p">>, STR_IN, <<"c">>>>} : n \in Names}

NextRender ==
  \/ cStatus = "idle" /\ \E input \in RenderTags : compileStart(input)
  \/ compileArg
  \/ compileEmit
  \/ extendComponents(<<ObjectValue([k \in {<<"H">>} |-> "X"])>>)
  \/ cStatus = "returned"
       /\ \E pv \in SourceValues(js.props, <<"p">>, PropsValues),
             cv \in SourceValues(js.container, <<"c">>, ContainerValues) :
            (pv \in PlainProps \/ cv \in PlainContainers) /\ evaluate(pv, cv)

SpecRender == Init /\ [][NextRender]_vars

----------------------------------------------------------------------------
(* Enabling the tag on an engine: useTag *)

\* var name = "react"
name == <<"r", "e", "a", "c", "t">>

\* a registration of the extension under the name of the tag
useTagBothCustom(customName) ==
  /\ swigExtensions' = swigExtensions \cup {IF Truthy(customName) THEN customName.v ELSE name}
  /\ swigTags' = swigTags \cup {IF Truthy(customName) THEN customName.v ELSE name}
  /\ uCustomName' = customName
  /\ UNCHANGED <<regVars, parseVars, compileVars, evalVars>>

\* useTag(swig, customName): swig.setExtension(name, ...) and
\* swig.setTag(customName || name, ...); a name set twice is kept once
useTag(customName) ==
  /\ swigExtensions' = swigExtensions \cup {name}
  /\ swigTags' = swigTags \cup {IF Truthy(customName) THEN customName.v ELSE name}
  /\ uCustomName' = customName
  /\ UNCHANGED <<regVars, parseVars, compileVars, evalVars>>

\* the customName arguments: none, the empty string, the default, another name
CustomNames == {Undefined, Str(<<>>), Str(name), Str(<<"t">>)}

\* an engine on which useTag enables the tag: it compiles the tag once it
\* holds it under some name, and the code it evaluates calls _ext.react
NextEngine ==
  \/ \E customName \in CustomNames : useTag(customName)
  \/ cStatus = "idle" /\ swigTags # {} /\ \E input \in RenderTags : compileStart(input)
  \/ compileArg
  \/ compileEmit
  \/ extendComponents(<<ObjectValue([k \in {<<"H">>} |-> "X"])>>)
  \/ cStatus = "returned" /\ name \in swigExtensions
       /\ \E pv \in SourceValues(js.props, <<"p">>, PlainProps),
             cv \in SourceValues(js.container, <<"c">>, PlainContainers) : evaluate(pv, cv)

SpecEngine == Init /\ [][NextEngine]_vars

----------------------------------------------------------------------------
(* Claims about the tag compiler *)

\* the tokens of q, concatenated in order without separators
RECURSIVE Concat(_)
Concat(q) == IF q = <<>> THEN <<>> ELSE Head(q) \o Concat(Tail(q))

\* s holds t as a contiguous part
Contains(s, t) ==
  \E i \in 0..(Len(s) - Len(t)) : SubSeq(s, i + 1, i + Len(t)) = t

\* the number of positions from..to of q that hold token t
Count(q, t, from, to) == Cardinality({m \in from..to : q[m] = t})

\* in a queue q = <<`with`, `{`, ...>>, position n holds a closing brace at
\* which as many closing as opening braces (the one at position 2 included)
\* have been passed
Balanced(q, n) ==
  q[n] = STR_OBJ_CLOSE /\ Count(q, STR_OBJ_CLOSE, 3, n) = Count(q, STR_OBJ_OPEN, 2, n)

NestedObjectSource ==
  <<"{", "a", ":", "1", ",", "b", ":", "{", "c", ":", "2", "}", "}">>

\* C3: when the token after `with` is `{`, the props source is the
\* concatenation of that `{` and every following token up to and including
\* the first `}` at which the closing braces equal the opening ones; an inner
\* `}` does not end the scan and the tokens after the balancing `}` stay in
\* the queue.  The stream { a : 1 , b : { c : 2 } } gives {a:1,b:{c:2}}.
C3_BalancedBraceScan ==
  [][(cStatus = "looping" /\ Len(args) >= 2 /\ args[1] = STR_WITH /\ args[2] = STR_OBJ_OPEN) =>
       /\ \A n \in 3..Len(args) :
            (Balanced(args, n) /\ \A m \in 3..(n - 1) : ~Balanced(args, m)) =>
              /\ props' = Str(Concat(SubSeq(args, 2, n)))
              /\ args' = SubSeq(args, n + 1, Len(args))
              /\ cStatus' = "looping"
       /\ args = Tail(NestedObjectArgs) => props' = Str(NestedObjectSource)]_vars

C3_Witness ==
  /\ cInput = NestedObjectArgs
  /\ cStatus = "returned"
  /\ js.props = NestedObjectSource

\* C4: whenever a token dequeued at the top level of the argument loop is
\* neither `with` nor `in`, compile throws an error whose message names the
\* token, and returns no code.
C4_UnexpectedArgumentThrows ==
  [][(cStatus = "looping" /\ args # <<>> /\ Head(args) \notin {STR_WITH, STR_IN}) =>
       /\ cStatus' = "threw"
       /\ Contains(cErr', Head(args))
       /\ ~js'.emitted]_vars

\* C17: whenever compile returns code, its argument queue is empty: every
\* token of the list (the empty string included) was consumed as the
\* component name, a keyword, an operand or a part of a brace scan, and none
\* is left unprocessed.
C17_QueueEmptyOnReturn ==
  cStatus = "returned" => args = <<>>

\* C18: whenever compile returns code whose props source comes from a `with`
\* followed by `{`, that source holds as many `{` as `}`: a list that runs
\* out before the braces balance never yields an unclosed literal such as a
\* bare `{`.
C18_EmittedPropsBalanced ==
  (cStatus = "returned" /\ js.props # <<>> /\ Head(js.props) = "{") =>
    Cardinality({i \in 1..Len(js.props) : js.props[i] = "{"})
      = Cardinality({i \in 1..Len(js.props) : js.props[i] = "}"})

----------------------------------------------------------------------------
(* Claims about the rendered fragment *)

\* the first position of s from position from on that holds t (0 if none)
FirstAt(s, t, from) ==
  LET at == {i \in from..(Len(s) - Len(t) + 1) : SubSeq(s, i, i + Len(t) - 1) = t} IN
  IF at = {} THEN 0 ELSE CHOOSE i \in at : \A j \in at : i <= j

\* the value of the attribute whose name and opening quote are attr, up to
\* the next double quote
AttributeValue(s, attr) ==
  LET i == FirstAt(s, attr, 1)
      start == i + Len(attr)
      end == FirstAt(s, <<"\"">>, start)
  IN SubSeq(s, start, end - 1)

\* the reverse of the quote escaping: every &quot; becomes a double quote
RECURSIVE UnescapeQuotes(_)
UnescapeQuotes(s) ==
  IF s = <<>> THEN <<>>
  ELSE IF Len(s) >= Len(QUOT) /\ SubSeq(s, 1, Len(QUOT)) = QUOT
       THEN <<"\"">> \o UnescapeQuotes(SubSeq(s, Len(QUOT) + 1, Len(s)))
       ELSE <<Head(s)>> \o UnescapeQuotes(Tail(s))

NotJson == [ok |-> FALSE, val |-> <<>>, next |-> 0]

\* JSON.parse of the string literal whose opening quote precedes position i:
\* its characters up to the closing quote, \" and \\ being the escapes that
\* JSON.stringify writes over this alphabet
RECURSIVE JsonStringAt(_, _, _)
JsonStringAt(s, i, acc) ==
  IF i > Len(s) THEN NotJson
  ELSE IF s[i] = "\"" THEN [ok |-> TRUE, val |-> acc, next |-> i + 1]
  ELSE IF s[i] = "\\"
       THEN IF i + 1 <= Len(s) /\ s[i + 1] \in {"\"", "\\"}
            THEN JsonStringAt(s, i + 2, Append(acc, s[i + 1]))
            ELSE NotJson
       ELSE JsonStringAt(s, i + 1, Append(acc, s[i]))

\* JSON.parse of the members "k":"v",... from position i to the closing brace
\* that ends the text
RECURSIVE JsonMembersAt(_, _, _)
JsonMembersAt(s, i, acc) ==
  IF i > Len(s) \/ s[i] # "\"" THEN NotJson
  ELSE LET k == JsonStringAt(s, i + 1, <<>>) IN
       IF ~k.ok \/ k.next + 1 > Len(s) \/ s[k.next] # ":" \/ s[k.next + 1] # "\"" THEN NotJson
       ELSE LET v == JsonStringAt(s, k.next + 2, <<>>) IN
            IF ~v.ok \/ v.next > Len(s) THEN NotJson
            ELSE IF s[v.next] = "}" /\ v.next = Len(s)
                 THEN [ok |-> TRUE, val |-> Append(acc, Entry(k.val, v.val)), next |-> v.next + 1]
            ELSE IF s[v.next] = ","
                 THEN JsonMembersAt(s, v.next + 1, Append(acc, Entry(k.val, v.val)))
            ELSE NotJson

\* JSON.parse of an object of string members
JsonParse(s) ==
  IF Len(s) < 2 \/ s[1] # "{" THEN NotJson
  ELSE IF s = <<"{", "}">> THEN [ok |-> TRUE, val |-> <<>>, next |-> 3]
  ELSE JsonMembersAt(s, 2, <<>>)

\* the members of an object, whatever their order
Members(entries) == {entries[i] : i \in 1..Len(entries)}

\* C1: for a component name that is not a key of the registry when the
\* emitted code is evaluated, the fragment is the container's opening tag
\* with its attributes immediately followed by the matching closing tag:
\* nothing stands between them.
C1_MissingComponentNoInnerMarkup ==
  (lastOp = "evaluate" /\ rName \notin DOMAIN components) =>
    LET o == output.v
        gt == FirstAt(o, <<">">>, 1)
        tagName == SubSeq(o, 2, FirstAt(o, <<" ">>, 1) - 1)
    IN /\ output.t = "string"
       /\ gt > 0
       /\ SubSeq(o, gt + 1, Len(o)) = <<"<", "/">> \o tagName \o <<">">>

\* C2: for a registered name n and a props object p (string values may hold
\* double quotes or the text &quot;), the fragment holds
\* data-react-component="n", and the value of its data-react-props attribute,
\* with every &quot; turned back into a double quote, JSON-decodes to an
\* object equal to p.
C2_PropsRoundTrip ==
  (lastOp = "evaluate" /\ rName \in DOMAIN components /\ eProps.kind = "object") =>
    LET o == output.v
        decoded == JsonParse(UnescapeQuotes(AttributeValue(o, DataReactProps)))
    IN /\ Contains(o, DataReactComponent \o rName \o <<"\"">>)
       /\ decoded.ok
       /\ Members(decoded.val) = Members(eProps.entries)

----------------------------------------------------------------------------
(* Claims about the container element *)

\* the opening tag of fragment o: everything up to its first >
OpeningTag(o) == SubSeq(o, 1, FirstAt(o, <<">">>, 1))

\* o ends with the closing tag of element t
ClosesWith(o, t) ==
  LET close == <<"<", "/">> \o t \o <<">">> IN
  Len(o) >= Len(close) /\ SubSeq(o, Len(o) - Len(close) + 1, Len(o)) = close

\* the two attributes the emitted code writes itself, for name n and props p
ReactAttributes(n, p) ==
  DataReactComponent \o n \o <<"\"">>
    \o DataReactProps \o ReplaceAllQuotes(JsonStringify(p)) \o <<"\"">>

\* the number of places where s holds t
Occurrences(s, t) ==
  Cardinality({i \in 1..(Len(s) - Len(t) + 1) : SubSeq(s, i, i + Len(t) - 1) = t})

\* one key="value" attribute per entry, every double quote of the value escaped
RECURSIVE EscapedAttributes(_)
EscapedAttributes(entries) ==
  IF entries = <<>> THEN <<>>
  ELSE <<" ">> \o entries[1].k \o <<"=", "\"">> \o ReplaceAllQuotes(entries[1].v) \o <<"\"">>
         \o EscapedAttributes(Tail(entries))

C12_StringContainerIsTag ==
  (lastOp = "evaluate" /\ eContainer.kind = "string" /\ eContainer.text # <<>>) =>
    LET p == IF ValueTruthy(eProps) THEN eProps ELSE Object(<<>>, <<>>) IN
    /\ OpeningTag(output.v) = <<"<">> \o eContainer.text \o ReactAttributes(rName, p) \o <<">">>
    /\ ClosesWith(output.v, eContainer.text)

\* C13: for a container object, the opening tag holds one key="value"
\* attribute for every own key other than tag, none for tag, and every double
\* quote of a value (not only the first) is written as &quot;.
C13_AttributesEscaped ==
  (lastOp = "evaluate" /\ eContainer.kind = "object") =>
    LET p == IF ValueTruthy(eProps) THEN eProps ELSE Object(<<>>, <<>>) IN
    OpeningTag(output.v)
      = <<"<">> \o eContainer.tag \o EscapedAttributes(eContainer.entries)
          \o ReactAttributes(rName, p) \o <<">">>

\* C14: for a container object, also one with an own key data-react-props or
\* data-react-component, the opening tag holds exactly one data-react-props
\* attribute, whose value is the escaped serialization of props, and exactly
\* one data-react-component attribute, whose value is the component name.
C14_ReservedAttributesOnce ==
  (lastOp = "evaluate" /\ eContainer.kind = "object") =>
    LET p == IF ValueTruthy(eProps) THEN eProps ELSE Object(<<>>, <<>>)
        open == OpeningTag(output.v) IN
    /\ Occurrences(open, DataReactProps) = 1
    /\ Occurrences(open, DataReactComponent) = 1
    /\ AttributeValue(open, DataReactProps) = ReplaceAllQuotes(JsonStringify(p))
    /\ AttributeValue(open, DataReactComponent) = rName

----------------------------------------------------------------------------
(* Claims about compile time and render time *)

\* C16: compile does not touch the registry and returns code for a name
\* whether or not it is registered; every evaluation of the emitted code
\* resolves the name against the registry as it is at that step: it renders
\* the component the registry holds then, and reports the name missing
\* exactly when the registry does not hold it then; a registered name stays
\* registered, so only renders before the registration report it missing.
C16_RegistryReadAtRender ==
  [][/\ cStatus' # cStatus => UNCHANGED regVars
     /\ (cStatus = "looping" /\ cStatus' = "returned") =>
          js'.emitted /\ js'.componentName = JsString(componentName)
     /\ lastOp' = "evaluate" =>
          IF js.componentName \in DOMAIN components
          THEN /\ consoleErr' = Undefined
               /\ Contains(output'.v, renderToString(components[js.componentName]))
          ELSE consoleErr' = Str(js.componentName)
     /\ DOMAIN components \subseteq DOMAIN components']_vars

C16_Witness ==
  /\ lastOp = "evaluate"
  /\ rName \notin cSeen /\ rName \in DOMAIN components
  /\ consoleErr = Undefined
  /\ Contains(output.v, renderToString(components[rName]))

----------------------------------------------------------------------------
(* Claims about useTag *)

\* C15 as stated: after useTag, the render extension and the tag are both
\* held under customName when it was supplied (a non-empty string), and both
\* under react when not.
C15_BothUnderCustomName ==
  swigTags # {} =>
    LET n == IF Truthy(uCustomName) THEN uCustomName.v ELSE name IN
    n \in swigTags /\ n \in swigExtensions

\* C15 as amended: after useTag, the tag is held under customName when that
\* is a non-empty string and under react otherwise, and the render extension
\* is held under react and under no other name, whatever customName is: the
\* name the emitted code calls it by (_ext.react).
C15_TagCustomExtensionReact ==
  swigTags # {} =>
    /\ (IF Truthy(uCustomName) THEN uCustomName.v ELSE name) \in swigTags
    /\ swigExtensions = {name}

C15_Witness ==
  /\ uCustomName = Str(<<"t">>)
  /\ <<"t">> \in swigTags /\ name \notin swigTags
  /\ swigExtensions = {name}
  /\ lastOp = "evaluate" /\ rName \in DOMAIN components

----------------------------------------------------------------------------
(* Claims about the registry *)

SetMax(S) == CHOOSE x \in S : \A y \in S : y <= x

\* positions among the first n of arguments that hold an object with own key k
Suppliers(arguments, n, k) ==
  {j \in 1..n : j <= Len(arguments) /\ arguments[j].kind = "object" /\ k \in DOMAIN arguments[j].obj}

\* reg is `before` with, for every key, the value of the last of the first n
\* arguments that supplies it
LastWriteWins(reg, before, arguments, n) ==
  /\ DOMAIN reg \subseteq Names
  /\ \A k \in Names :
       LET at == Suppliers(arguments, n, k) IN
       IF at # {}
       THEN k \in DOMAIN reg /\ reg[k] = arguments[SetMax(at)].obj[k]
       ELSE /\ k \in DOMAIN reg <=> k \in DOMAIN before
            /\ k \in DOMAIN before => reg[k] = before[k]

\* C7: components(...) throws whenever one of its arguments is not an object
\* (undefined, null, a number, a string, a boolean or a function).
C7_NonObjectRejected ==
  (lastOp = "components" /\ \E i \in 1..Len(extArgs) : extArgs[i].kind \in NonObjectKinds)
    => extStatus = "threw"

\* C8: when components(g1, ..., gk) throws at gi, the registry is the
\* registry before the call with g1, ..., g(i-1) merged in that order: the
\* groups before gi stay merged and no group after gi is merged.
C8_NoRollbackOnThrow ==
  (lastOp = "components" /\ extStatus = "threw") =>
    LET i == argumentIndex + 1 IN
    /\ i \in 1..Len(extArgs)
    /\ extArgs[i].kind \in NonObjectKinds
    /\ LastWriteWins(components, extBefore, extArgs, i - 1)

C8_Witness ==
  /\ lastOp = "components" /\ extStatus = "threw"
  /\ argumentIndex = 1 /\ Len(extArgs) = 3
  /\ extArgs[1].kind = "object" /\ extArgs[3].kind = "object"
  /\ \E k \in DOMAIN extArgs[1].obj : k \notin DOMAIN extBefore /\ k \in DOMAIN components
  /\ \E k \in DOMAIN extArgs[3].obj : k \notin DOMAIN components

\* C9: after successful components(...) calls only, every registry key maps
\* to the component of its most recent registration (a later argument of one
\* call being more recent than an earlier one), no other key is present, and
\* a render of a registered name uses that component.
C9_LastWriteWins ==
  ~everThrew =>
    /\ LastWriteWins(components, EmptyObject, history, Len(history))
    /\ (lastOp \in {"render", "evaluate"} /\ Suppliers(history, Len(history), rName) # {}) =>
         LET c == history[SetMax(Suppliers(history, Len(history), rName))].obj[rName] IN
         /\ rComponent = c
         /\ rReturn = Str(renderToString(c))

C9_Witness ==
  /\ ~everThrew /\ lastOp = "render"
  /\ \E i, j \in 1..Len(history) :
       /\ i < j
       /\ history[i].kind = "object" /\ history[j].kind = "object"
       /\ rName \in DOMAIN history[i].obj /\ rName \in DOMAIN history[j].obj
       /\ history[i].obj[rName] # history[j].obj[rName]
       /\ rComponent = history[j].obj[rName]

\* the registry that components(arguments) leaves when called on registry reg
RegistryAfter(reg, arguments) == extendLoop(reg, arguments, 1, -1).components

\* C10: for groups A and B that share no key, and every starting registry,
\* components(A, B) leaves the registry that components(A); components(B)
\* leaves, which is the one components(B); components(A) leaves.
C10_DisjointCommute ==
  (/\ lastOp = "components" /\ extStatus = "returned" /\ Len(extArgs) = 2
   /\ extArgs[1].kind = "object" /\ extArgs[2].kind = "object"
   /\ DOMAIN extArgs[1].obj \cap DOMAIN extArgs[2].obj = {}) =>
    LET A == extArgs[1]
        B == extArgs[2] IN
    /\ components = RegistryAfter(RegistryAfter(extBefore, <<A>>), <<B>>)
    /\ components = RegistryAfter(RegistryAfter(extBefore, <<B>>), <<A>>)

C10_Witness ==
  /\ lastOp = "components" /\ extStatus = "returned" /\ Len(extArgs) = 2
  /\ extArgs[1].kind = "object" /\ extArgs[2].kind = "object"
  /\ DOMAIN extArgs[1].obj # {} /\ DOMAIN extArgs[2].obj # {}
  /\ DOMAIN extArgs[1].obj \cap DOMAIN extArgs[2].obj = {}
  /\ \E k \in DOMAIN extBefore \cap DOMAIN extArgs[2].obj : extBefore[k] # extArgs[2].obj[k]

----------------------------------------------------------------------------
(* Claims about the tag parser *)

\* C5 as stated: the first token of an invocation, string literal or
\* identifier, is pushed to the output with its quotes stripped and its
\* handler does not return true.
C5_FirstTokenCaptured ==
  Len(pTokens) = 1 =>
    /\ out = <<StripQuotes(pTokens[1].match)>>
    /\ pReturn # "true"

\* C5 as amended: a first string-literal token is pushed with one quote
\* stripped from each end and its handler returns undefined; a first
\* identifier token is kept as the component name of the closure, is not
\* pushed by its handler, and its handler returns true (it is passed through).
C5_FirstTokenByType ==
  Len(pTokens) = 1 =>
    LET m == pTokens[1].match IN
    IF pTokens[1].type = "STRING"
    THEN /\ out = <<SubSeq(m, 2, Len(m) - 1)>>
         /\ pComponentName = Str(SubSeq(m, 2, Len(m) - 1))
         /\ pReturn = "undefined"
    ELSE /\ out = <<>>
         /\ pComponentName = Str(m)
         /\ pReturn = "true"

C5_Witness ==
  /\ Len(pTokens) = 1 /\ pTokens[1].type = "VAR"
  /\ pReturn = "true" /\ out = <<>>

\* C6: for every token handled after the first one of the invocation, an
\* identifier `with` or `in` is pushed to the output once and its handler
\* returns false; every other identifier and every string literal leaves the
\* output alone and its handler returns true.
C6_KeywordsCaptured ==
  [][(Len(pTokens) >= 1 /\ Len(pTokens') = Len(pTokens) + 1) =>
       LET t == pTokens'[Len(pTokens')] IN
       IF t.type = "VAR" /\ t.match \in {STR_WITH, STR_IN}
       THEN out' = Append(out, t.match) /\ pReturn' = "false"
       ELSE out' = out /\ pReturn' = "true"]_vars

\* C19: once the first token of an invocation has been handled (an empty
\* quoted string included), no later token is taken as the component name:
\* the captured name stays as it is, and a later handler pushes nothing but
\* an identifier `with` or `in`.
C19_NameCapturedOnce ==
  [][(Len(pTokens) >= 1 /\ Len(pTokens') = Len(pTokens) + 1) =>
       LET t == pTokens'[Len(pTokens')] IN
       /\ pComponentName' = pComponentName
       /\ out' # out => (t.type = "VAR" /\ t.match \in {STR_WITH, STR_IN})]_vars

====
